---- MODULE Spec2Model ----
(***************************************************************************)
(* A model of sqlparser/ast.go: the AST nodes, their Format methods        *)
(* (the canonical serializer), escape, NewWhere and Limit.RewriteLimit.    *)
(*                                                                         *)
(* Text is a sequence of one-character strings, so that the byte-wise      *)
(* scans of the code (escape, strconv.ParseInt) are scans here too.        *)
(* A node is a record with a "type" field; the nil interface is NIL.       *)
(* A signed 64-bit integer is a record [neg, mag]: its sign and the        *)
(* decimal digits of its magnitude, most significant first, <<>> for 0.    *)
(***************************************************************************)
EXTENDS Integers, Sequences, FiniteSets, TLC

VARIABLES pc, heap, limit, ret, err, node, out, whereArg, whereRet

vars == <<pc, heap, limit, ret, err, node, out, whereArg, whereRet>>

(***************************************************************************)
(* Bounds of the model.                                                    *)
(***************************************************************************)
\* the longest list (SelectExprs, Whens, ...) the harness builds
MaxElems == 3

(***************************************************************************)
(* Values of the Go runtime.                                               *)
(***************************************************************************)
\* the nil interface value
NIL == [type |-> "nil"]

\* the nil []byte: every element of a real byte string is one character,
\* so no byte string equals this marker
NilBytes == <<"nil">>

\* the byte 0x60 (the backquote), which a TLA+ string literal cannot hold
Backquote == "bq"

\* the nil error
NoErr == [kind |-> "nil"]

\* errors.New(s)
ErrorsNew(s) == [kind |-> "errorString", s |-> s]

\* the *strconv.NumError that ParseInt returns
NumError(num, e) == [kind |-> "NumError", Func |-> "ParseInt", Num |-> num, Err |-> e]

(***************************************************************************)
(* Decimal digits and magnitudes.                                          *)
(***************************************************************************)
DigitChars == <<"0", "1", "2", "3", "4", "5", "6", "7", "8", "9">>

IsDigitChar(ch) == \E d \in 1..10 : DigitChars[d] = ch

DigitVal(ch) == (CHOOSE d \in 1..10 : DigitChars[d] = ch) - 1

\* the text of a sequence of digits
Dec(ds) == [i \in 1..Len(ds) |-> DigitChars[ds[i] + 1]]

RECURSIVE StripZeros(_)
StripZeros(m) ==
    IF m # <<>> /\ Head(m) = 0 THEN StripZeros(Tail(m)) ELSE m

PadTo(m, n) == [i \in 1..n |-> IF i <= n - Len(m) THEN 0 ELSE m[i - (n - Len(m))]]

RECURSIVE CmpFrom(_, _, _)
CmpFrom(a, b, i) ==
    IF i > Len(a) THEN 0
    ELSE IF a[i] < b[i] THEN -1
    ELSE IF a[i] > b[i] THEN 1
    ELSE CmpFrom(a, b, i + 1)

\* -1, 0, 1 as magnitude a is below, equal to, above magnitude b
CmpMag(a, b) ==
    IF Len(a) < Len(b) THEN -1
    ELSE IF Len(a) > Len(b) THEN 1
    ELSE CmpFrom(a, b, 1)

RECURSIVE AddFrom(_, _, _, _)
AddFrom(a, b, i, carry) ==
    IF i = 0 THEN <<>>
    ELSE LET s == a[i] + b[i] + carry
         IN  Append(AddFrom(a, b, i - 1, s \div 10), s % 10)

AddMag(a, b) ==
    LET n == (IF Len(a) > Len(b) THEN Len(a) ELSE Len(b)) + 1
    IN  StripZeros(AddFrom(PadTo(a, n), PadTo(b, n), n, 0))

RECURSIVE SubFrom(_, _, _, _)
SubFrom(a, b, i, borrow) ==
    IF i = 0 THEN <<>>
    ELSE LET s == a[i] - b[i] - borrow
         IN  Append(SubFrom(a, b, i - 1, IF s < 0 THEN 1 ELSE 0),
                    IF s < 0 THEN s + 10 ELSE s)

\* a - b for magnitudes a >= b
SubMag(a, b) ==
    LET n == Len(a)
    IN  StripZeros(SubFrom(a, PadTo(b, n), n, 0))

\* 2^63, 2^64 - 1 and 2^64
Pow63 == <<9, 2, 2, 3, 3, 7, 2, 0, 3, 6, 8, 5, 4, 7, 7, 5, 8, 0, 8>>
MaxUint64 == <<1, 8, 4, 4, 6, 7, 4, 4, 0, 7, 3, 7, 0, 9, 5, 5, 1, 6, 1, 5>>
Pow64 == <<1, 8, 4, 4, 6, 7, 4, 4, 0, 7, 3, 7, 0, 9, 5, 5, 1, 6, 1, 6>>

Int64(neg, mag) == [neg |-> neg /\ mag # <<>>, mag |-> mag]

Zero64 == Int64(FALSE, <<>>)

\* the exact sum of two signed integers
AddSigned(x, y) ==
    IF x.neg = y.neg THEN Int64(x.neg, AddMag(x.mag, y.mag))
    ELSE IF CmpMag(x.mag, y.mag) >= 0 THEN Int64(x.neg, SubMag(x.mag, y.mag))
    ELSE Int64(y.neg, SubMag(y.mag, x.mag))

\* whether the integer lies in [-2^63, 2^63 - 1]
InInt64(x) ==
    IF x.neg THEN CmpMag(x.mag, Pow63) <= 0 ELSE CmpMag(x.mag, Pow63) < 0

\* an integer in (-2^64, 2^64) reduced to its int64 two's complement value
Wrap64(x) ==
    IF InInt64(x) THEN x
    ELSE Int64(~x.neg, SubMag(Pow64, x.mag))

\* offset + count on int64: Go's + wraps around on overflow
Add64(x, y) == Wrap64(AddSigned(x, y))

(***************************************************************************)
(* strconv.ParseInt(s, 10, 64) and strconv.FormatInt(i, 10).               *)
(***************************************************************************)
\* ParseUint's loop from byte i on, n the value so far: the first byte that
\* is no digit is a syntax error, the first step over 2^64 - 1 a range error
RECURSIVE ParseUintFrom(_, _, _)
ParseUintFrom(s, i, n) ==
    IF i > Len(s) THEN [mag |-> n, e |-> "nil"]
    ELSE IF ~IsDigitChar(s[i]) THEN [mag |-> <<>>, e |-> "ErrSyntax"]
    ELSE LET n1 == StripZeros(Append(n, DigitVal(s[i])))
         IN  IF CmpMag(n1, MaxUint64) > 0
             THEN [mag |-> MaxUint64, e |-> "ErrRange"]
             ELSE ParseUintFrom(s, i + 1, n1)

ParseUint(s) ==
    IF s = <<>> THEN [mag |-> <<>>, e |-> "ErrSyntax"]
    ELSE ParseUintFrom(s, 1, <<>>)

\* [val, err]: the int64 and the error of strconv.ParseInt(s, 10, 64)
ParseInt(s) ==
    IF s = <<>> THEN [val |-> Zero64, err |-> NumError(s, "ErrSyntax")]
    ELSE LET neg == s[1] = "-"
             rest == IF s[1] = "+" \/ s[1] = "-" THEN Tail(s) ELSE s
             un == ParseUint(rest)
         IN  IF un.e = "ErrSyntax"
             THEN [val |-> Zero64, err |-> NumError(s, "ErrSyntax")]
             ELSE IF ~neg /\ CmpMag(un.mag, Pow63) >= 0
             THEN [val |-> Int64(FALSE, SubMag(Pow63, <<1>>)),
                   err |-> NumError(s, "ErrRange")]
             ELSE IF neg /\ CmpMag(un.mag, Pow63) > 0
             THEN [val |-> Int64(TRUE, Pow63), err |-> NumError(s, "ErrRange")]
             ELSE [val |-> Int64(neg, un.mag), err |-> NoErr]

\* the decimal text of an int64
FormatInt(x) ==
    IF x.mag = <<>> THEN <<"0">>
    ELSE (IF x.neg THEN <<"-">> ELSE <<>>) \o Dec(x.mag)

(***************************************************************************)
(* TrackedBuffer.  A Format method appends to the buffer it is given; it   *)
(* is modelled by what it appends: [ok, text, args], ok FALSE when the     *)
(* call panics, text the bytes written, args the bind variables written    *)
(* through WriteArg.                                                       *)
(***************************************************************************)
\* buf.WriteString(t), and a literal run of a Fprintf format
Wr(t) == [ok |-> TRUE, text |-> t, args |-> <<>>]

\* a run-time panic: the call never returns
Panic == [ok |-> FALSE, text |-> <<>>, args |-> <<>>]

\* the writes rs[1], rs[2], ... in this order; a panic ends them
RECURSIVE Cat(_)
Cat(rs) ==
    IF rs = <<>> THEN Wr(<<>>)
    ELSE IF ~Head(rs).ok THEN Panic
    ELSE LET t == Cat(Tail(rs))
         IN  IF ~t.ok THEN Panic
             ELSE [ok |-> TRUE,
                   text |-> Head(rs).text \o t.text,
                   args |-> Head(rs).args \o t.args]

\* the verb %s of Fprintf on a []byte or a string: the bytes, none for nil
Bs(b) == Wr(IF b = NilBytes THEN <<>> ELSE b)

\* buf.WriteArg(arg): the placeholder is written and recorded
WriteArg(arg) == [ok |-> TRUE, text |-> <<":">> \o arg, args |-> <<arg>>]

\* sqltypes.MakeString(b).EncodeSQL(buf): one quoted SQL string literal
RECURSIVE EncodeBytes(_)
EncodeBytes(b) ==
    IF b = <<>> THEN <<>>
    ELSE (IF Head(b) \in {"'", "\\"} THEN <<"\\", Head(b)>> ELSE <<Head(b)>>)
             \o EncodeBytes(Tail(b))

EncodeSQL(b) == Wr(<<"'">> \o EncodeBytes(b) \o <<"'">>)

(***************************************************************************)
(* The keyword table and the character classes of the tokenizer.           *)
(***************************************************************************)
keywords ==
    { <<"s", "e", "l", "e", "c", "t">>, <<"S", "E", "L", "E", "C", "T">>, <<"f", "r", "o", "m">>, <<"w", "h", "e", "r", "e">>, <<"o", "r", "d", "e", "r">>, <<"g", "r", "o", "u", "p">>, <<"b", "y">>,
      <<"a", "s">>, <<"j", "o", "i", "n">>, <<"o", "n">>, <<"l", "i", "m", "i", "t">>, <<"i", "n", "d", "e", "x">>, <<"u", "s", "e">> }

Letters ==
    { "a", "b", "c", "d", "e", "f", "g", "h", "i", "j", "k", "l", "m",
      "n", "o", "p", "q", "r", "s", "t", "u", "v", "w", "x", "y", "z",
      "A", "B", "C", "D", "E", "F", "G", "H", "I", "J", "K", "L", "M",
      "N", "O", "P", "Q", "R", "S", "T", "U", "V", "W", "X", "Y", "Z" }

isLetter(ch) == ch \in Letters \/ ch = "_"

isDigit(ch) == IsDigitChar(ch)

(***************************************************************************)
(* The nodes.  A []byte field is a byte string or NilBytes, an interface   *)
(* field a node or NIL, a nil pointer of type t is NilOf(t).               *)
(***************************************************************************)
NilOf(t) == [type |-> t, isNil |-> TRUE]

IsNilPtr(n) == "isNil" \in DOMAIN n

StrVal(b) == [type |-> "StrVal", b |-> b]
NumVal(b) == [type |-> "NumVal", b |-> b]
ValArg(b) == [type |-> "ValArg", b |-> b]
NullVal == [type |-> "NullVal"]
ColName(name, qualifier) == [type |-> "ColName", Name |-> name, Qualifier |-> qualifier]
TableName(name, qualifier) == [type |-> "TableName", Name |-> name, Qualifier |-> qualifier]
Comments(elems) == [type |-> "Comments", elems |-> elems]
SelectExprs(elems) == [type |-> "SelectExprs", elems |-> elems]
StarExpr(tableName) == [type |-> "StarExpr", TableName |-> tableName]
NonStarExpr(expr, as) == [type |-> "NonStarExpr", Expr |-> expr, As |-> as]
Columns(isnil, elems) == [type |-> "Columns", nil |-> isnil, elems |-> elems]
TableExprs(elems) == [type |-> "TableExprs", elems |-> elems]
AliasedTableExpr(expr, as, hints) ==
    [type |-> "AliasedTableExpr", Expr |-> expr, As |-> as, Hints |-> hints]
ParenTableExpr(expr) == [type |-> "ParenTableExpr", Expr |-> expr]
JoinTableExpr(left, join, right, on) ==
    [type |-> "JoinTableExpr", LeftExpr |-> left, Join |-> join, RightExpr |-> right, On |-> on]
IndexHints(typ, indexes) == [type |-> "IndexHints", Type |-> typ, Indexes |-> indexes]
Where(typ, expr) == [type |-> "Where", Type |-> typ, Expr |-> expr]
LikeExpr(expr) == [type |-> "LikeExpr", Expr |-> expr]
WhereExpr(expr) == [type |-> "WhereExpr", Expr |-> expr]
AndExpr(left, right) == [type |-> "AndExpr", Left |-> left, Right |-> right]
OrExpr(left, right) == [type |-> "OrExpr", Left |-> left, Right |-> right]
NotExpr(expr) == [type |-> "NotExpr", Expr |-> expr]
ParenBoolExpr(expr) == [type |-> "ParenBoolExpr", Expr |-> expr]
ComparisonExpr(op, left, right) ==
    [type |-> "ComparisonExpr", Operator |-> op, Left |-> left, Right |-> right]
RangeCond(op, left, from, to) ==
    [type |-> "RangeCond", Operator |-> op, Left |-> left, From |-> from, To |-> to]
NullCheck(op, expr) == [type |-> "NullCheck", Operator |-> op, Expr |-> expr]
ExistsExpr(subquery) == [type |-> "ExistsExpr", Subquery |-> subquery]
ColNames(elems) == [type |-> "ColNames", elems |-> elems]
ValTuple(elems) == [type |-> "ValTuple", elems |-> elems]
ValExprs(elems) == [type |-> "ValExprs", elems |-> elems]
Subquery(select) == [type |-> "Subquery", Select |-> select]
BinaryExpr(op, left, right) ==
    [type |-> "BinaryExpr", Operator |-> op, Left |-> left, Right |-> right]
UnaryExpr(op, expr) == [type |-> "UnaryExpr", Operator |-> op, Expr |-> expr]
FuncExpr(name, distinct, exprs) ==
    [type |-> "FuncExpr", Name |-> name, Distinct |-> distinct, Exprs |-> exprs]
CaseExpr(expr, whens, else) ==
    [type |-> "CaseExpr", Expr |-> expr, Whens |-> whens, Else |-> else]
When(cond, val) == [type |-> "When", Cond |-> cond, Val |-> val]
Values(elems) == [type |-> "Values", elems |-> elems]
GroupBy(elems) == [type |-> "GroupBy", elems |-> elems]
OrderBy(elems) == [type |-> "OrderBy", elems |-> elems]
Order(expr, direction) == [type |-> "Order", Expr |-> expr, Direction |-> direction]
Limit(offset, rowcount) == [type |-> "Limit", Offset |-> offset, Rowcount |-> rowcount]
UpdateExprs(elems) == [type |-> "UpdateExprs", elems |-> elems]
UpdateExpr(name, expr) == [type |-> "UpdateExpr", Name |-> name, Expr |-> expr]
SpaceSplitExprs(elems) == [type |-> "SpaceSplitExprs", elems |-> elems]
SpaceSplitExpr(name, expr) == [type |-> "SpaceSplitExpr", Name |-> name, Expr |-> expr]
OnDup(isnil, elems) == [type |-> "OnDup", nil |-> isnil, elems |-> elems]

\* a SelectStatement, whose type is declared outside ast.go: its rendering
SelectStmt(sql) == [type |-> "Select", sql |-> sql]

\* JoinTableExpr.Join
AST_JOIN == <<"j", "o", "i", "n">>
AST_STRAIGHT_JOIN == <<"s", "t", "r", "a", "i", "g", "h", "t", "_", "j", "o", "i", "n">>
AST_LEFT_JOIN == <<"l", "e", "f", "t", " ", "j", "o", "i", "n">>
AST_RIGHT_JOIN == <<"r", "i", "g", "h", "t", " ", "j", "o", "i", "n">>
AST_CROSS_JOIN == <<"c", "r", "o", "s", "s", " ", "j", "o", "i", "n">>
AST_NATURAL_JOIN == <<"n", "a", "t", "u", "r", "a", "l", " ", "j", "o", "i", "n">>

\* IndexHints.Type
AST_USE == <<"u", "s", "e">>
AST_IGNORE == <<"i", "g", "n", "o", "r", "e">>
AST_FORCE == <<"f", "o", "r", "c", "e">>

\* Where.Type
AST_WHERE == <<"w", "h", "e", "r", "e">>
AST_HAVING == <<"h", "a", "v", "i", "n", "g">>

\* ComparisonExpr.Operator, RangeCond.Operator, NullCheck.Operator
AST_EQ == <<"=">>
AST_LT == <<"<">>
AST_NE == <<"!", "=">>
AST_IN == <<"i", "n">>
AST_NOT_LIKE == <<"n", "o", "t", " ", "l", "i", "k", "e">>
AST_BETWEEN == <<"b", "e", "t", "w", "e", "e", "n">>
AST_NOT_BETWEEN == <<"n", "o", "t", " ", "b", "e", "t", "w", "e", "e", "n">>
AST_IS_NULL == <<"i", "s", " ", "n", "u", "l", "l">>
AST_IS_NOT_NULL == <<"i", "s", " ", "n", "o", "t", " ", "n", "u", "l", "l">>

\* Order.Direction
AST_ASC == <<"a", "s", "c">>
AST_DESC == <<"d", "e", "s", "c">>

(***************************************************************************)
(* The Format methods.  Format(n) is n.Format(buf), the verb %v of         *)
(* Fprintf; each XFormat is the method of type X.                          *)
(***************************************************************************)
RECURSIVE Format(_)

\* the verb %v of Fprintf: values[i].(SQLNode) panics on the nil interface
V(n) == IF n = NIL THEN Panic ELSE Format(n)

\* the list loop with the separator written after every element
RECURSIVE FormatListTrailing(_, _, _, _)
FormatListTrailing(elems, i, prefix, sep) ==
    IF i > Len(elems) THEN Wr(<<>>)
    ELSE Cat(<<Wr(IF i = 1 THEN prefix ELSE <<>>), V(elems[i]), Wr(sep),
               FormatListTrailing(elems, i + 1, sep, sep)>>)

\* the loop "for _, n := range node { Fprintf("%s%v", prefix, n); prefix = sep }"
\* from element i on
RECURSIVE FormatList(_, _, _, _)
FormatList(elems, i, prefix, sep) ==
    IF i > Len(elems) THEN Wr(<<>>)
    ELSE Cat(<<Wr(prefix), V(elems[i]), FormatList(elems, i + 1, sep, sep)>>)

RECURSIVE CommentsFrom(_, _)
CommentsFrom(elems, i) ==
    IF i > Len(elems) THEN Wr(<<>>)
    ELSE Cat(<<Bs(elems[i]), Wr(<<" ">>), CommentsFrom(elems, i + 1)>>)

CommentsFormat(n) == CommentsFrom(n.elems, 1)

SelectExprsFormat(n) == FormatList(n.elems, 1, <<>>, <<",", " ">>)

StarExprFormat(n) ==
    Cat(<<IF n.TableName # NilBytes THEN Cat(<<Bs(n.TableName), Wr(<<".">>)>>) ELSE Wr(<<>>),
          Wr(<<"*">>)>>)

NonStarExprFormat(n) ==
    Cat(<<V(n.Expr),
          IF n.As # NilBytes THEN Cat(<<Wr(<<" ", "a", "s", " ">>), Bs(n.As)>>) ELSE Wr(<<>>)>>)

ColumnsFormat(n) ==
    IF n.nil THEN Wr(<<>>)
    ELSE Cat(<<Wr(<<"(">>), V(SelectExprs(n.elems)), Wr(<<")">>)>>)

TableExprsFormat(n) == FormatList(n.elems, 1, <<>>, <<",", " ">>)

AliasedTableExprFormat(n) ==
    Cat(<<V(n.Expr),
          IF n.As # NilBytes THEN Cat(<<Wr(<<" ", "a", "s", " ">>), Bs(n.As)>>) ELSE Wr(<<>>),
          IF n.Hints # NIL THEN V(n.Hints) ELSE Wr(<<>>)>>)

\* escape without the keyword lookup
escapeNoKeywords(name) ==
    LET needQuota == \E i \in 1..Len(name) : ~isLetter(name[i]) /\ ~isDigit(name[i])
    IN  IF needQuota THEN Cat(<<Wr(<<Backquote>>), Bs(name), Wr(<<Backquote>>)>>)
        ELSE Bs(name)

\* escape(buf, name)
escape(name) ==
    IF name \in keywords THEN Cat(<<Wr(<<Backquote>>), Bs(name), Wr(<<Backquote>>)>>)
    ELSE LET needQuota == \E i \in 1..Len(name) : ~isLetter(name[i]) /\ ~isDigit(name[i])
         IN  IF needQuota THEN Cat(<<Wr(<<Backquote>>), Bs(name), Wr(<<Backquote>>)>>)
             ELSE Bs(name)

TableNameFormat(n) ==
    Cat(<<IF n.Qualifier # NilBytes THEN Cat(<<escape(n.Qualifier), Wr(<<".">>)>>) ELSE Wr(<<>>),
          escape(n.Name)>>)

ParenTableExprFormat(n) == Cat(<<Wr(<<"(">>), V(n.Expr), Wr(<<")">>)>>)

\* JoinTableExpr.Format writing " on " whether or not On is present
JoinTableExprFormatAlwaysOn(n) ==
    Cat(<<V(n.LeftExpr), Wr(<<" ">>), Bs(n.Join), Wr(<<" ">>), V(n.RightExpr), Wr(<<" ", "o", "n", " ">>),
          IF n.On # NIL THEN V(n.On) ELSE Wr(<<>>)>>)

JoinTableExprFormat(n) ==
    Cat(<<V(n.LeftExpr), Wr(<<" ">>), Bs(n.Join), Wr(<<" ">>), V(n.RightExpr),
          IF n.On # NIL THEN Cat(<<Wr(<<" ", "o", "n", " ">>), V(n.On)>>) ELSE Wr(<<>>)>>)

RECURSIVE IndexesFrom(_, _, _)
IndexesFrom(indexes, i, prefix) ==
    IF i > Len(indexes) THEN Wr(<<>>)
    ELSE Cat(<<Wr(prefix), Bs(indexes[i]), IndexesFrom(indexes, i + 1, <<",", " ">>)>>)

IndexHintsFormat(n) ==
    Cat(<<Wr(<<" ">>), Bs(n.Type), Wr(<<" ", "i", "n", "d", "e", "x", " ">>),
          IndexesFrom(n.Indexes, 1, <<"(">>), Wr(<<")">>)>>)

WhereFormat(n) ==
    IF IsNilPtr(n) THEN Wr(<<>>)
    ELSE Cat(<<Wr(<<" ">>), Bs(n.Type), Wr(<<" ">>), V(n.Expr)>>)

LikeExprFormat(n) ==
    IF IsNilPtr(n) THEN Wr(<<>>)
    ELSE Cat(<<Wr(<<" ", "l", "i", "k", "e", " ">>), V(n.Expr)>>)

WhereExprFormat(n) ==
    IF IsNilPtr(n) THEN Wr(<<>>)
    ELSE Cat(<<Wr(<<" ", "w", "h", "e", "r", "e", " ">>), V(n.Expr)>>)

AndExprFormat(n) == Cat(<<V(n.Left), Wr(<<" ", "a", "n", "d", " ">>), V(n.Right)>>)

OrExprFormat(n) == Cat(<<V(n.Left), Wr(<<" ", "o", "r", " ">>), V(n.Right)>>)

NotExprFormat(n) == Cat(<<Wr(<<"n", "o", "t", " ">>), V(n.Expr)>>)

ParenBoolExprFormat(n) == Cat(<<Wr(<<"(">>), V(n.Expr), Wr(<<")">>)>>)

ComparisonExprFormat(n) ==
    Cat(<<V(n.Left), Wr(<<" ">>), Bs(n.Operator), Wr(<<" ">>), V(n.Right)>>)

RangeCondFormat(n) ==
    Cat(<<V(n.Left), Wr(<<" ">>), Bs(n.Operator), Wr(<<" ">>), V(n.From),
          Wr(<<" ", "a", "n", "d", " ">>), V(n.To)>>)

NullCheckFormat(n) == Cat(<<V(n.Expr), Wr(<<" ">>), Bs(n.Operator)>>)

ExistsExprFormat(n) == Cat(<<Wr(<<"e", "x", "i", "s", "t", "s", " ">>), V(n.Subquery)>>)

StrValFormat(n) == EncodeSQL(n.b)

NumValFormat(n) == Bs(n.b)

\* node[1:] panics on the empty slice: slice bounds out of range
ValArgFormat(n) ==
    IF Len(n.b) < 1 THEN Panic
    ELSE WriteArg(Tail(n.b))

NullValFormat(n) == Wr(<<"n", "u", "l", "l">>)

ColNamesFormat(n) == FormatList(n.elems, 1, <<>>, <<",">>)

ColNameFormat(n) ==
    Cat(<<IF n.Qualifier # NilBytes THEN Cat(<<escape(n.Qualifier), Wr(<<".">>)>>) ELSE Wr(<<>>),
          escape(n.Name)>>)

ValTupleFormat(n) == Cat(<<Wr(<<"(">>), V(ValExprs(n.elems)), Wr(<<")">>)>>)

ValExprsFormat(n) == FormatList(n.elems, 1, <<>>, <<",", " ">>)

SubqueryFormat(n) == Cat(<<Wr(<<"(">>), V(n.Select), Wr(<<")">>)>>)

BinaryExprFormat(n) == Cat(<<V(n.Left), Wr(<<n.Operator>>), V(n.Right)>>)

UnaryExprFormat(n) == Cat(<<Wr(<<n.Operator>>), V(n.Expr)>>)

FuncExprFormat(n) ==
    LET distinct == IF n.Distinct THEN <<"d", "i", "s", "t", "i", "n", "c", "t", " ">> ELSE <<>>
    IN  Cat(<<Bs(n.Name), Wr(<<"(">>), Wr(distinct), V(n.Exprs), Wr(<<")">>)>>)

RECURSIVE WhensFrom(_, _)
WhensFrom(whens, i) ==
    IF i > Len(whens) THEN Wr(<<>>)
    ELSE Cat(<<V(whens[i]), Wr(<<" ">>), WhensFrom(whens, i + 1)>>)

\* CaseExpr.Format ranging over Whens from the last to the first
RECURSIVE WhensDownFrom(_, _)
WhensDownFrom(whens, i) ==
    IF i < 1 THEN Wr(<<>>)
    ELSE Cat(<<V(whens[i]), Wr(<<" ">>), WhensDownFrom(whens, i - 1)>>)

CaseExprFormatReversed(n) ==
    Cat(<<Wr(<<"c", "a", "s", "e", " ">>),
          IF n.Expr # NIL THEN Cat(<<V(n.Expr), Wr(<<" ">>)>>) ELSE Wr(<<>>),
          WhensDownFrom(n.Whens, Len(n.Whens)),
          IF n.Else # NIL THEN Cat(<<Wr(<<"e", "l", "s", "e", " ">>), V(n.Else), Wr(<<" ">>)>>) ELSE Wr(<<>>),
          Wr(<<"e", "n", "d">>)>>)

CaseExprFormat(n) ==
    Cat(<<Wr(<<"c", "a", "s", "e", " ">>),
          IF n.Expr # NIL THEN Cat(<<V(n.Expr), Wr(<<" ">>)>>) ELSE Wr(<<>>),
          WhensFrom(n.Whens, 1),
          IF n.Else # NIL THEN Cat(<<Wr(<<"e", "l", "s", "e", " ">>), V(n.Else), Wr(<<" ">>)>>) ELSE Wr(<<>>),
          Wr(<<"e", "n", "d">>)>>)

WhenFormat(n) == Cat(<<Wr(<<"w", "h", "e", "n", " ">>), V(n.Cond), Wr(<<" ", "t", "h", "e", "n", " ">>), V(n.Val)>>)

ValuesFormat(n) == FormatList(n.elems, 1, <<"v", "a", "l", "u", "e", "s", " ">>, <<",", " ">>)

GroupByFormat(n) == FormatList(n.elems, 1, <<" ", "g", "r", "o", "u", "p", " ", "b", "y", " ">>, <<",", " ">>)

OrderByFormat(n) == FormatList(n.elems, 1, <<" ", "o", "r", "d", "e", "r", " ", "b", "y", " ">>, <<",", " ">>)

OrderFormat(n) == Cat(<<V(n.Expr), Wr(<<" ">>), Bs(n.Direction)>>)

LimitFormat(n) ==
    IF IsNilPtr(n) THEN Wr(<<>>)
    ELSE Cat(<<Wr(<<" ", "l", "i", "m", "i", "t", " ">>),
               IF n.Offset # NIL THEN Cat(<<V(n.Offset), Wr(<<",", " ">>)>>) ELSE Wr(<<>>),
               V(n.Rowcount)>>)

UpdateExprsFormat(n) == FormatList(n.elems, 1, <<>>, <<",", " ">>)

UpdateExprFormat(n) == Cat(<<V(n.Name), Wr(<<" ", "=", " ">>), V(n.Expr)>>)

SpaceSplitExprsFormat(n) == FormatList(n.elems, 1, <<>>, <<" ">>)

SpaceSplitExprFormat(n) == Cat(<<Bs(n.Name), Wr(<<" ">>), Bs(n.Expr)>>)

OnDupFormat(n) ==
    IF n.nil THEN Wr(<<>>)
    ELSE Cat(<<Wr(<<" ", "o", "n", " ", "d", "u", "p", "l", "i", "c", "a", "t", "e", " ", "k", "e", "y", " ", "u", "p", "d", "a", "t", "e", " ">>), V(UpdateExprs(n.elems))>>)

\* the rendering of a SelectStatement
SelectStmtFormat(n) == Bs(n.sql)

Format(n) ==
    CASE n.type = "Comments" -> CommentsFormat(n)
      [] n.type = "SelectExprs" -> SelectExprsFormat(n)
      [] n.type = "StarExpr" -> StarExprFormat(n)
      [] n.type = "NonStarExpr" -> NonStarExprFormat(n)
      [] n.type = "Columns" -> ColumnsFormat(n)
      [] n.type = "TableExprs" -> TableExprsFormat(n)
      [] n.type = "AliasedTableExpr" -> AliasedTableExprFormat(n)
      [] n.type = "TableName" -> TableNameFormat(n)
      [] n.type = "ParenTableExpr" -> ParenTableExprFormat(n)
      [] n.type = "JoinTableExpr" -> JoinTableExprFormat(n)
      [] n.type = "IndexHints" -> IndexHintsFormat(n)
      [] n.type = "Where" -> WhereFormat(n)
      [] n.type = "LikeExpr" -> LikeExprFormat(n)
      [] n.type = "WhereExpr" -> WhereExprFormat(n)
      [] n.type = "AndExpr" -> AndExprFormat(n)
      [] n.type = "OrExpr" -> OrExprFormat(n)
      [] n.type = "NotExpr" -> NotExprFormat(n)
      [] n.type = "ParenBoolExpr" -> ParenBoolExprFormat(n)
      [] n.type = "ComparisonExpr" -> ComparisonExprFormat(n)
      [] n.type = "RangeCond" -> RangeCondFormat(n)
      [] n.type = "NullCheck" -> NullCheckFormat(n)
      [] n.type = "ExistsExpr" -> ExistsExprFormat(n)
      [] n.type = "StrVal" -> StrValFormat(n)
      [] n.type = "NumVal" -> NumValFormat(n)
      [] n.type = "ValArg" -> ValArgFormat(n)
      [] n.type = "NullVal" -> NullValFormat(n)
      [] n.type = "ColNames" -> ColNamesFormat(n)
      [] n.type = "ColName" -> ColNameFormat(n)
      [] n.type = "ValTuple" -> ValTupleFormat(n)
      [] n.type = "ValExprs" -> ValExprsFormat(n)
      [] n.type = "Subquery" -> SubqueryFormat(n)
      [] n.type = "BinaryExpr" -> BinaryExprFormat(n)
      [] n.type = "UnaryExpr" -> UnaryExprFormat(n)
      [] n.type = "FuncExpr" -> FuncExprFormat(n)
      [] n.type = "CaseExpr" -> CaseExprFormat(n)
      [] n.type = "When" -> WhenFormat(n)
      [] n.type = "Values" -> ValuesFormat(n)
      [] n.type = "GroupBy" -> GroupByFormat(n)
      [] n.type = "OrderBy" -> OrderByFormat(n)
      [] n.type = "Order" -> OrderFormat(n)
      [] n.type = "Limit" -> LimitFormat(n)
      [] n.type = "UpdateExprs" -> UpdateExprsFormat(n)
      [] n.type = "UpdateExpr" -> UpdateExprFormat(n)
      [] n.type = "SpaceSplitExprs" -> SpaceSplitExprsFormat(n)
      [] n.type = "SpaceSplitExpr" -> SpaceSplitExprFormat(n)
      [] n.type = "OnDup" -> OnDupFormat(n)
      [] n.type = "Select" -> SelectStmtFormat(n)

\* String(node): the text of a fresh buffer after Fprintf("%v", node)
String(n) == V(n)

\* NewWhere(typ, expr)
NewWhere(typ, expr) ==
    IF expr = NIL THEN NilOf("Where")
    ELSE Where(typ, expr)

(***************************************************************************)
(* Limit and Limit.RewriteLimit.  A *Limit is an index into heap, 0 for    *)
(* the nil pointer; new(Limit) appends the zero Limit.                     *)
(***************************************************************************)
ZeroLimit == Limit(NIL, NIL)

NilPtr == 0

\* RewriteLimitRowcount with the offset dropped from the sum
RewriteLimitRowcountNoOffset(h, p, newLimit, offset) ==
    LET r == h[p].Rowcount
    IN  IF r.type # "NumVal"
        THEN [heap |-> h, ret |-> NilPtr, err |-> ErrorsNew("Limit.RowCount is not number")]
        ELSE LET count == ParseInt(r.b)
             IN  IF count.err # NoErr
                 THEN [heap |-> h, ret |-> NilPtr, err |-> count.err]
                 ELSE [heap |-> [h EXCEPT ![newLimit].Rowcount = NumVal(FormatInt(count.val))],
                       ret |-> newLimit,
                       err |-> NoErr]

\* the rest of RewriteLimit once offset is known
RewriteLimitRowcount(h, p, newLimit, offset) ==
    LET r == h[p].Rowcount
    IN  IF r.type # "NumVal"
        THEN [heap |-> h, ret |-> NilPtr, err |-> ErrorsNew("Limit.RowCount is not number")]
        ELSE LET count == ParseInt(r.b)
             IN  IF count.err # NoErr
                 THEN [heap |-> h, ret |-> NilPtr, err |-> count.err]
                 ELSE LET allRowCount == FormatInt(Add64(offset, count.val))
                      IN  [heap |-> [h EXCEPT ![newLimit].Rowcount = NumVal(allRowCount)],
                           ret |-> newLimit,
                           err |-> NoErr]

\* RewriteLimit with Rowcount's kind tested before Offset's text is parsed
RewriteLimitKindsFirst(h, p) ==
    IF p = NilPtr THEN [heap |-> h, ret |-> NilPtr, err |-> NoErr]
    ELSE LET h1 == Append(h, ZeroLimit)
             newLimit == Len(h1)
             o == h[p].Offset
         IN  IF o # NIL /\ o.type # "NumVal"
             THEN [heap |-> h1, ret |-> NilPtr, err |-> ErrorsNew("Limit.offset is not number")]
             ELSE IF h[p].Rowcount.type # "NumVal"
             THEN [heap |-> h1, ret |-> NilPtr, err |-> ErrorsNew("Limit.RowCount is not number")]
             ELSE LET offset == IF o = NIL THEN [val |-> Zero64, err |-> NoErr] ELSE ParseInt(o.b)
                  IN  IF offset.err # NoErr
                      THEN [heap |-> h1, ret |-> NilPtr, err |-> offset.err]
                      ELSE RewriteLimitRowcount(h1, p, newLimit, offset.val)

\* RewriteLimit writing the sum into the node it was called on
RewriteLimitInPlace(h, p) ==
    IF p = NilPtr THEN [heap |-> h, ret |-> NilPtr, err |-> NoErr]
    ELSE LET o == h[p].Offset
             offset == IF o = NIL THEN [val |-> Zero64, err |-> NoErr]
                       ELSE IF o.type # "NumVal"
                       THEN [val |-> Zero64, err |-> ErrorsNew("Limit.offset is not number")]
                       ELSE ParseInt(o.b)
         IN  IF offset.err # NoErr THEN [heap |-> h, ret |-> NilPtr, err |-> offset.err]
             ELSE LET r == RewriteLimitRowcount(h, p, p, offset.val)
                  IN  IF r.err # NoErr THEN r
                      ELSE [r EXCEPT !.heap[p].Offset = NIL]

\* [heap, ret, err]: the heap after, the *Limit and the error returned by
\* (node *Limit).RewriteLimit() called with node = p on heap h
RewriteLimit(h, p) ==
    IF p = NilPtr THEN [heap |-> h, ret |-> NilPtr, err |-> NoErr]
    ELSE LET h1 == Append(h, ZeroLimit)
             newLimit == Len(h1)
             o == h[p].Offset
         IN  IF o = NIL THEN RewriteLimitRowcount(h1, p, newLimit, Zero64)
             ELSE IF o.type # "NumVal"
             THEN [heap |-> h1, ret |-> NilPtr, err |-> ErrorsNew("Limit.offset is not number")]
             ELSE LET offset == ParseInt(o.b)
                  IN  IF offset.err # NoErr
                      THEN [heap |-> h1, ret |-> NilPtr, err |-> offset.err]
                      ELSE RewriteLimitRowcount(h1, p, newLimit, offset.val)

(***************************************************************************)
(* The inputs of the harness.                                              *)
(***************************************************************************)
\* every sequence over S of at most n elements
SeqsUpTo(S, n) == UNION {[1..k -> S] : k \in 0..n}

\* the texts of numeric literals: small numbers, signs and leading zeros,
\* texts that are no numbers, and the ends of the int64 and uint64 ranges
NumTexts ==
    { <<"0">>, <<"1">>, <<"5">>, <<"1", "0">>, <<"2", "0">>, <<"0", "0", "7">>, <<"+", "5">>, <<"-", "1">>, <<"-", "3", "0">>, <<"-", "0">>,
      <<>>, <<"a", "b", "c">>, <<"1", "2", "a">>, <<"1", "_", "0">>, <<"-">>, <<"1", ".", "5">>,
      Dec(SubMag(Pow63, <<1>>)), Dec(SubMag(Pow63, <<2>>)), Dec(Pow63),
      <<"-">> \o Dec(Pow63), <<"-">> \o Dec(AddMag(Pow63, <<1>>)),
      Dec(MaxUint64), Dec(Pow64), Dec(Pow64) \o <<"a">> }

\* the expressions a Limit's fields are drawn from
LimitExprs ==
    {NumVal(t) : t \in NumTexts}
        \cup { StrVal(<<"a", "b", "c">>), StrVal(<<"5">>), ValArg(<<":", "n">>), NullVal,
               ColName(<<"x">>, NilBytes) }

\* identifier texts: plain ones, keywords, and ones with other characters
IdentTexts ==
    { <<"a">>, <<"b">>, <<"t", "1">>, <<"p", "l", "a", "i", "n", "_", "c", "o", "l", "1">>, <<"_", "x">>, <<"1", "a">>, <<>>,
      <<"o", "r", "d", "e", "r">>, <<"S", "E", "L", "E", "C", "T">>, <<"s", "e", "l", "e", "c", "t">>, <<"O", "r", "d", "e", "r">>, <<"m", "y", "-", "c", "o", "l">>, <<"a", " ", "b">>, <<"a", ".", "b">> }

OptIdentTexts == IdentTexts \cup {NilBytes}

\* the contents of the leaves StrVal, NumVal and ValArg
LeafTexts == { <<>>, <<":">>, <<":", "v", "1">>, <<"a">>, <<"1">>, <<"i", "t", "'", "s">>, <<"a", "\\", "b">>, <<"?">> }

ColA == ColName(<<"a">>, NilBytes)
ColB == ColName(<<"b">>, NilBytes)
ColC == ColName(<<"c">>, NilBytes)
TabT1 == AliasedTableExpr(TableName(<<"t", "1">>, NilBytes), NilBytes, NIL)
TabT2 == AliasedTableExpr(TableName(<<"t", "2">>, NilBytes), NilBytes, NIL)
SubQ == Subquery(SelectStmt(<<"s", "e", "l", "e", "c", "t", " ", "1", " ", "f", "r", "o", "m", " ", "d", "u", "a", "l">>))

\* value expressions, boolean expressions and table expressions used as children
ValSet ==
    { ColA, ColB, NumVal(<<"1">>), StrVal(<<"x">>), ValArg(<<":", "v", "1">>), NullVal,
      BinaryExpr("+", ColA, NumVal(<<"1">>)), UnaryExpr("-", ColB),
      FuncExpr(<<"m", "a", "x">>, FALSE, ValExprs(<<ColA, ColB>>)),
      ValTuple(<<NumVal(<<"1">>), NumVal(<<"2">>)>>), SubQ }

CondEq == ComparisonExpr(AST_EQ, ColA, NumVal(<<"1">>))

BoolSet ==
    { CondEq,
      ComparisonExpr(AST_IN, ColB, ValTuple(<<NumVal(<<"1">>), NumVal(<<"2">>)>>)),
      NullCheck(AST_IS_NULL, ColB),
      AndExpr(CondEq, NullCheck(AST_IS_NOT_NULL, ColC)) }

TableSet == { TabT1, TabT2, ParenTableExpr(JoinTableExpr(TabT1, AST_JOIN, TabT2, NIL)) }

JoinKinds ==
    { AST_JOIN, AST_STRAIGHT_JOIN, AST_LEFT_JOIN, AST_RIGHT_JOIN, AST_CROSS_JOIN,
      AST_NATURAL_JOIN }

\* the elements of the lists
ListVals == { ColA, ColB, ColC }
ListSelectExprs ==
    { NonStarExpr(ColA, NilBytes), NonStarExpr(ColB, NilBytes), NonStarExpr(ColC, NilBytes),
      StarExpr(NilBytes) }
ListOrders == { Order(ColA, AST_ASC), Order(ColB, AST_DESC), Order(ColC, AST_ASC) }
ListUpdateExprs ==
    { UpdateExpr(ColA, NumVal(<<"1">>)), UpdateExpr(ColB, ColA), UpdateExpr(ColC, StrVal(<<"x">>)) }
ListSpaceSplitExprs ==
    { SpaceSplitExpr(<<"e", "n", "g", "i", "n", "e">>, <<"i", "n", "n", "o", "d", "b">>), SpaceSplitExpr(<<"c", "h", "a", "r", "s", "e", "t">>, <<"u", "t", "f", "8">>),
      SpaceSplitExpr(<<"c", "o", "m", "m", "e", "n", "t">>, <<"c">>) }
ListWhens ==
    { When(CondEq, NumVal(<<"1">>)), When(NullCheck(AST_IS_NULL, ColB), StrVal(<<"x">>)),
      When(ComparisonExpr(AST_LT, ColC, ColA), ColB) }
ListTuples == { ValTuple(<<NumVal(<<"1">>)>>), ValTuple(<<ColA, ColB>>), SubQ }

LeafNodes ==
    {StrVal(t) : t \in LeafTexts} \cup {NumVal(t) : t \in LeafTexts}
        \cup {ValArg(t) : t \in LeafTexts} \cup {NullVal}

NameNodes ==
    {ColName(n, q) : n \in IdentTexts, q \in OptIdentTexts}
        \cup {TableName(n, q) : n \in IdentTexts, q \in OptIdentTexts}

AliasNodes ==
    {StarExpr(t) : t \in OptIdentTexts}
        \cup {NonStarExpr(e, as) : e \in {ColA, NumVal(<<"1">>)}, as \in OptIdentTexts}
        \cup {AliasedTableExpr(e, as, h) :
                e \in {TableName(<<"t", "1">>, NilBytes), SubQ},
                as \in OptIdentTexts,
                h \in {NIL, IndexHints(AST_USE, <<<<"a">>>>)}}
        \cup {IndexHints(ty, ix) :
                ty \in {AST_USE, AST_IGNORE, AST_FORCE},
                ix \in SeqsUpTo({<<"a">>, <<"o", "r", "d", "e", "r">>, <<"m", "y", "-", "c", "o", "l">>}, MaxElems)}
        \cup {FuncExpr(f, d, ValExprs(args)) :
                f \in IdentTexts, d \in BOOLEAN, args \in {<<>>, <<ColA>>, <<ColA, ColB>>}}

ClauseNodes ==
    {Where(ty, e) : ty \in {AST_WHERE, AST_HAVING}, e \in BoolSet}
        \cup {NilOf("Where"), NilOf("Limit"), NilOf("LikeExpr"), NilOf("WhereExpr")}
        \cup {Limit(o, r) : o \in {NIL, NumVal(<<"1", "0">>), ValArg(<<":", "o">>)},
                            r \in {NumVal(<<"2", "0">>), ValArg(<<":", "n">>)}}
        \cup {OnDup(TRUE, <<>>)}
        \cup {OnDup(FALSE, es) : es \in SeqsUpTo(ListUpdateExprs, MaxElems)}
        \cup {LikeExpr(StrVal(<<"a", "%">>)), WhereExpr(CondEq)}
        \cup {JoinTableExpr(l, k, r, on) :
                l \in TableSet, k \in JoinKinds, r \in TableSet, on \in BoolSet \cup {NIL}}

ExprNodes ==
    ValSet \cup BoolSet \cup TableSet
        \cup {OrExpr(l, r) : l \in BoolSet, r \in BoolSet}
        \cup {NotExpr(e) : e \in BoolSet}
        \cup {ParenBoolExpr(e) : e \in BoolSet}
        \cup {RangeCond(op, ColA, NumVal(<<"1">>), NumVal(<<"5">>)) :
                op \in {AST_BETWEEN, AST_NOT_BETWEEN}}
        \cup {ComparisonExpr(op, l, r) :
                op \in {AST_EQ, AST_NE, AST_NOT_LIKE}, l \in {ColA, ColB}, r \in ValSet}
        \cup {ExistsExpr(SubQ), SelectStmt(<<"s", "e", "l", "e", "c", "t", " ", "1", " ", "f", "r", "o", "m", " ", "d", "u", "a", "l">>)}
        \cup {CaseExpr(e, ws, el) :
                e \in {NIL, ColA}, ws \in SeqsUpTo(ListWhens, MaxElems),
                el \in {NIL, NumVal(<<"0">>)}}
        \cup ListSelectExprs \cup ListOrders \cup ListUpdateExprs
        \cup ListSpaceSplitExprs \cup ListWhens

ListNodes ==
    {SelectExprs(es) : es \in SeqsUpTo(ListSelectExprs, MaxElems)}
        \cup {TableExprs(es) : es \in SeqsUpTo(TableSet, MaxElems)}
        \cup {ValExprs(es) : es \in SeqsUpTo(ListVals, MaxElems)}
        \cup {ValTuple(es) : es \in SeqsUpTo(ListVals, MaxElems)}
        \cup {GroupBy(es) : es \in SeqsUpTo(ListVals, MaxElems)}
        \cup {OrderBy(es) : es \in SeqsUpTo(ListOrders, MaxElems)}
        \cup {UpdateExprs(es) : es \in SeqsUpTo(ListUpdateExprs, MaxElems)}
        \cup {SpaceSplitExprs(es) : es \in SeqsUpTo(ListSpaceSplitExprs, MaxElems)}
        \cup {Values(es) : es \in SeqsUpTo(ListTuples, MaxElems)}
        \cup {ColNames(es) : es \in SeqsUpTo(ListVals, MaxElems)}
        \cup {Comments(es) : es \in SeqsUpTo({<<"/", "*", " ", "a", " ", "*", "/">>, <<"/", "*", " ", "b", " ", "*", "/">>}, MaxElems)}
        \cup {Columns(TRUE, <<>>)}
        \cup {Columns(FALSE, es) : es \in SeqsUpTo(ListSelectExprs, MaxElems)}

\* the nodes the caller renders
Nodes == LeafNodes \cup NameNodes \cup AliasNodes \cup ClauseNodes \cup ExprNodes \cup ListNodes

(***************************************************************************)
(* The harness: a caller builds an input, then calls one operation on it.  *)
(***************************************************************************)
Init ==
    /\ pc = "idle"
    /\ heap = <<>>
    /\ limit = NilPtr
    /\ ret = NilPtr
    /\ err = NoErr
    /\ node = NIL
    /\ out = Wr(<<>>)
    /\ whereArg = [typ |-> AST_WHERE, expr |-> NIL]
    /\ whereRet = NilOf("Where")

\* the caller holds a *Limit: nil, or &Limit{Offset: o, Rowcount: r}
BuildLimit ==
    /\ pc = "idle"
    /\ \/ /\ heap' = heap
          /\ limit' = NilPtr
       \/ \E o \in LimitExprs \cup {NIL}, r \in LimitExprs \cup {NIL} :
            /\ heap' = Append(heap, Limit(o, r))
            /\ limit' = Len(heap) + 1
    /\ pc' = "limit"
    /\ UNCHANGED <<ret, err, node, out, whereArg, whereRet>>

\* newLimit, err := limit.RewriteLimit()
CallRewriteLimit ==
    /\ pc = "limit"
    /\ LET r == RewriteLimit(heap, limit)
       IN  /\ heap' = r.heap
           /\ ret' = r.ret
           /\ err' = r.err
    /\ pc' = "rewritten"
    /\ UNCHANGED <<limit, node, out, whereArg, whereRet>>

\* the caller holds a node
BuildNode ==
    /\ pc = "idle"
    /\ \E n \in Nodes : node' = n
    /\ pc' = "node"
    /\ UNCHANGED <<heap, limit, ret, err, out, whereArg, whereRet>>

\* s := String(node)
CallString ==
    /\ pc = "node"
    /\ out' = String(node)
    /\ pc' = "rendered"
    /\ UNCHANGED <<heap, limit, ret, err, node, whereArg, whereRet>>

\* the caller holds a clause kind and an expression, or none
BuildWhereArg ==
    /\ pc = "idle"
    /\ \E ty \in {AST_WHERE, AST_HAVING}, e \in BoolSet \cup {NIL} :
         whereArg' = [typ |-> ty, expr |-> e]
    /\ pc' = "wherearg"
    /\ UNCHANGED <<heap, limit, ret, err, node, out, whereRet>>

\* w := NewWhere(typ, expr)
CallNewWhere ==
    /\ pc = "wherearg"
    /\ whereRet' = NewWhere(whereArg.typ, whereArg.expr)
    /\ pc' = "where"
    /\ UNCHANGED <<heap, limit, ret, err, node, out, whereArg>>

\* s := String(w) on the clause NewWhere returned
CallStringWhere ==
    /\ pc = "where"
    /\ node' = whereRet
    /\ out' = String(whereRet)
    /\ pc' = "whererendered"
    /\ UNCHANGED <<heap, limit, ret, err, whereArg, whereRet>>

Next ==
    \/ BuildLimit
    \/ CallRewriteLimit
    \/ BuildNode
    \/ CallString
    \/ BuildWhereArg
    \/ CallNewWhere
    \/ CallStringWhere

Spec == Init /\ [][Next]_vars

(***************************************************************************)
(* Properties of Limit.RewriteLimit.                                       *)
(***************************************************************************)
\* a magnitude of at most 8 digits as a number
RECURSIVE ToNat(_)
ToNat(m) == IF m = <<>> THEN 0 ELSE 10 * ToNat(SubSeq(m, 1, Len(m) - 1)) + m[Len(m)]

IsSmall(x) == Len(x.mag) <= 8

IntOf(x) == IF x.neg THEN 0 - ToNat(x.mag) ELSE ToNat(x.mag)

\* x <= y on signed integers
Leq(x, y) ==
    IF x.neg /\ ~y.neg THEN TRUE
    ELSE IF ~x.neg /\ y.neg THEN FALSE
    ELSE IF x.neg THEN CmpMag(x.mag, y.mag) >= 0
    ELSE CmpMag(x.mag, y.mag) <= 0

\* the Limit RewriteLimit was called on, and its two fields
Called == pc = "rewritten" /\ limit # NilPtr
InOffset == heap[limit].Offset
InRowcount == heap[limit].Rowcount

\* Offset is absent or a numeric literal, Rowcount is a numeric literal
KindsNumeric ==
    /\ InOffset = NIL \/ InOffset.type = "NumVal"
    /\ InRowcount.type = "NumVal"

\* the offset (0 when absent) and the count
OffsetParse == IF InOffset = NIL THEN [val |-> Zero64, err |-> NoErr] ELSE ParseInt(InOffset.b)
CountParse == ParseInt(InRowcount.b)

\* both texts parse as base-10 signed 64-bit integers
BothParse == KindsNumeric /\ OffsetParse.err = NoErr /\ CountParse.err = NoErr

\* C1: RewriteLimit on the nil Limit returns nil and no error.  On a Limit
\* whose Rowcount is a numeric literal c and whose Offset is absent (0) or a
\* numeric literal o, both parsing as int64, it succeeds and returns a Limit
\* with Offset absent and Rowcount the numeric literal that holds the decimal
\* text of o + c, the int64 sum: the exact sum whenever that is an int64
\* (30 for 10 and 20, 5 for no offset and 5).
C1_RewriteLimitSum ==
    /\ pc = "rewritten" /\ limit = NilPtr => ret = NilPtr /\ err = NoErr
    /\ Called /\ BothParse =>
         /\ err = NoErr
         /\ ret # NilPtr
         /\ heap[ret].Offset = NIL
         /\ heap[ret].Rowcount.type = "NumVal"
         /\ heap[ret].Rowcount.b = FormatInt(Add64(OffsetParse.val, CountParse.val))
         /\ InInt64(AddSigned(OffsetParse.val, CountParse.val)) =>
              heap[ret].Rowcount.b = FormatInt(AddSigned(OffsetParse.val, CountParse.val))
         /\ IsSmall(OffsetParse.val) /\ IsSmall(CountParse.val) =>
              /\ ParseInt(heap[ret].Rowcount.b).err = NoErr
              /\ IntOf(ParseInt(heap[ret].Rowcount.b).val)
                     = IntOf(OffsetParse.val) + IntOf(CountParse.val)
    /\ Called /\ InOffset = NumVal(<<"1", "0">>) /\ InRowcount = NumVal(<<"2", "0">>) =>
         heap[ret] = Limit(NIL, NumVal(<<"3", "0">>))
    /\ Called /\ InOffset = NIL /\ InRowcount = NumVal(<<"5">>) =>
         heap[ret] = Limit(NIL, NumVal(<<"5">>))

\* offset 10, count 20 has been rewritten to 30
C1_Witness ==
    /\ Called
    /\ InOffset = NumVal(<<"1", "0">>)
    /\ InRowcount = NumVal(<<"2", "0">>)
    /\ err = NoErr
    /\ heap[ret].Rowcount = NumVal(<<"3", "0">>)

\* C2 as stated: an Offset that is no numeric literal fails with "offset is
\* not a number"; otherwise a Rowcount that is no numeric literal fails with
\* "row count is not a number"; otherwise a text that does not parse fails
\* with the conversion error.
C2_Original ==
    Called =>
        IF InOffset # NIL /\ InOffset.type # "NumVal"
        THEN err = ErrorsNew("offset is not a number")
        ELSE IF InRowcount.type # "NumVal"
        THEN err = ErrorsNew("row count is not a number")
        ELSE IF OffsetParse.err # NoErr \/ CountParse.err # NoErr
        THEN err.kind = "NumError"
        ELSE err = NoErr

\* C2, amended: an Offset that is present and no numeric literal fails with
\* "Limit.offset is not number", whatever Rowcount is; otherwise an Offset
\* whose text does not parse fails with ParseInt's error on that text,
\* whatever Rowcount is; otherwise a Rowcount that is no numeric literal
\* (absent, a string literal, ...) fails with "Limit.RowCount is not
\* number"; otherwise a Rowcount whose text does not parse fails with
\* ParseInt's error on that text.  The error is a *NumError exactly in the
\* two conversion cases, and the two messages differ.
C2_RewriteLimitErrors ==
    Called =>
        IF InOffset # NIL /\ InOffset.type # "NumVal"
        THEN err = ErrorsNew("Limit.offset is not number")
        ELSE IF OffsetParse.err # NoErr
        THEN err.kind = "NumError" /\ err.Num = InOffset.b /\ err = OffsetParse.err
        ELSE IF InRowcount.type # "NumVal"
        THEN /\ err = ErrorsNew("Limit.RowCount is not number")
             /\ err # ErrorsNew("Limit.offset is not number")
        ELSE IF CountParse.err # NoErr
        THEN err.kind = "NumError" /\ err.Num = InRowcount.b /\ err = CountParse.err
        ELSE err = NoErr

\* an Offset literal that does not parse, before a Rowcount that is no literal
C2_Witness ==
    /\ Called
    /\ InOffset = NumVal(<<"a", "b", "c">>)
    /\ InRowcount = StrVal(<<"a", "b", "c">>)
    /\ err = NumError(<<"a", "b", "c">>, "ErrSyntax")

\* C3: a call of RewriteLimit leaves every Limit that existed before it as
\* it was, the one it was called on included; a successful call on a Limit
\* returns a node allocated by the call, not the input; a failing call
\* returns nil.
C3_RewriteLimitFrame ==
    [][pc = "limit" /\ pc' = "rewritten" =>
         /\ limit' = limit
         /\ Len(heap') >= Len(heap)
         /\ \A p \in 1..Len(heap) : heap'[p] = heap[p]
         /\ err' = NoErr /\ limit # NilPtr =>
              /\ ret' \in (Len(heap) + 1)..Len(heap')
              /\ ret' # limit
         /\ err' # NoErr => ret' = NilPtr]_vars

\* a successful call has returned a second node beside its input
C3_Witness ==
    /\ Called
    /\ err = NoErr
    /\ ret # NilPtr
    /\ ret # limit
    /\ heap[limit] = Limit(NumVal(<<"1", "0">>), NumVal(<<"2", "0">>))

\* C10 as stated: after a successful call on an offset o >= 0 (0 when
\* absent) and a count c >= 0, the returned Rowcount is a number >= 0,
\* >= o and >= c.
C10_Original ==
    Called /\ BothParse /\ ~OffsetParse.val.neg /\ ~CountParse.val.neg =>
        /\ err = NoErr
        /\ ParseInt(heap[ret].Rowcount.b).err = NoErr
        /\ LET total == ParseInt(heap[ret].Rowcount.b).val
           IN  /\ ~total.neg
               /\ Leq(OffsetParse.val, total)
               /\ Leq(CountParse.val, total)

(***************************************************************************)
(* Properties of the serializer.                                           *)
(***************************************************************************)
StartsWith(t, p) == Len(t) >= Len(p) /\ SubSeq(t, 1, Len(p)) = p

EndsWith(t, s) == Len(t) >= Len(s) /\ SubSeq(t, Len(t) - Len(s) + 1, Len(t)) = s

\* the number of places of t at which p occurs
Count(p, t) ==
    Cardinality({i \in 1..(Len(t) - Len(p) + 1) : SubSeq(t, i, i + Len(p) - 1) = p})

\* the texts ts[1], ts[2], ... with sep between each two neighbours
RECURSIVE JoinWith(_, _)
JoinWith(ts, sep) ==
    IF ts = <<>> THEN <<>>
    ELSE IF Len(ts) = 1 THEN ts[1]
    ELSE ts[1] \o sep \o JoinWith(Tail(ts), sep)

\* the text of node n rendered alone
Text(n) == String(n).text

\* String(node) has returned
Rendered == pc = "rendered"

\* the characters an identifier may hold and stay bare
IdentChars == Letters \cup {"_"} \cup {DigitChars[d] : d \in 1..10}

MustQuote(id) == id \in keywords \/ \E i \in 1..Len(id) : id[i] \notin IdentChars

Quoted(id) == <<Backquote>> \o id \o <<Backquote>>

\* the identifier as the quoting rule renders it
AsIdent(id) == IF MustQuote(id) THEN Quoted(id) ELSE id

\* C4: a ColName or TableName renders its Name wrapped in backquotes if and
\* only if the Name is a reserved keyword or holds a character outside
\* [A-Za-z0-9_], and bare and unchanged otherwise; a present Qualifier is
\* rendered by the same rule before the Name, with one '.' between, and an
\* absent Qualifier contributes nothing, no '.' either.  So order, SELECT and
\* my-col are quoted and plain_col1 is bare.
C4_IdentifierQuoting ==
    /\ Rendered /\ node.type \in {"ColName", "TableName"} =>
         /\ out.ok
         /\ node.Qualifier = NilBytes =>
              /\ out.text = AsIdent(node.Name)
              /\ out.text = Quoted(node.Name) <=> MustQuote(node.Name)
              /\ ~MustQuote(node.Name) => out.text = node.Name
              /\ ~MustQuote(node.Name) => Count(<<".">>, out.text) = 0
         /\ node.Qualifier # NilBytes =>
              out.text = AsIdent(node.Qualifier) \o <<".">> \o AsIdent(node.Name)
    /\ Rendered /\ node = ColName(<<"o", "r", "d", "e", "r">>, NilBytes) => out.text = <<Backquote, "o", "r", "d", "e", "r", Backquote>>
    /\ Rendered /\ node = ColName(<<"S", "E", "L", "E", "C", "T">>, NilBytes) => out.text = <<Backquote, "S", "E", "L", "E", "C", "T", Backquote>>
    /\ Rendered /\ node = ColName(<<"m", "y", "-", "c", "o", "l">>, NilBytes) => out.text = <<Backquote, "m", "y", "-", "c", "o", "l", Backquote>>
    /\ Rendered /\ node = ColName(<<"p", "l", "a", "i", "n", "_", "c", "o", "l", "1">>, NilBytes) => out.text = <<"p", "l", "a", "i", "n", "_", "c", "o", "l", "1">>
    /\ Rendered /\ node = TableName(<<"t", "1">>, <<"o", "r", "d", "e", "r">>) => out.text = <<Backquote, "o", "r", "d", "e", "r", Backquote, ".", "t", "1">>

\* a qualified name with a keyword as Name and a plain Qualifier was rendered
C4_Witness ==
    /\ Rendered
    /\ node = ColName(<<"o", "r", "d", "e", "r">>, <<"p", "l", "a", "i", "n", "_", "c", "o", "l", "1">>)
    /\ out.text = <<"p", "l", "a", "i", "n", "_", "c", "o", "l", "1", ".", Backquote, "o", "r", "d", "e", "r", Backquote>>

\* C5 as stated: whenever the text of an identifier-carrying field is a
\* reserved keyword, the field is rendered wrapped in backquotes: the parts
\* of a ColName and a TableName, the alias of a NonStarExpr and of an
\* AliasedTableExpr, the table of a StarExpr, the indexes of IndexHints and
\* the name of a FuncExpr.
C5_Original ==
    Rendered =>
        /\ node.type \in {"ColName", "TableName"} /\ node.Name \in keywords =>
             EndsWith(out.text, Quoted(node.Name))
        /\ node.type \in {"ColName", "TableName"} /\ node.Qualifier \in keywords =>
             StartsWith(out.text, Quoted(node.Qualifier) \o <<".">>)
        /\ node.type = "NonStarExpr" /\ node.As \in keywords =>
             out.text = Text(node.Expr) \o <<" ", "a", "s", " ">> \o Quoted(node.As)
        /\ node.type = "AliasedTableExpr" /\ node.As \in keywords =>
             StartsWith(out.text, Text(node.Expr) \o <<" ", "a", "s", " ">> \o Quoted(node.As))
        /\ node.type = "StarExpr" /\ node.TableName \in keywords =>
             out.text = Quoted(node.TableName) \o <<".", "*">>
        /\ node.type = "IndexHints" =>
             \A i \in 1..Len(node.Indexes) :
                node.Indexes[i] \in keywords =>
                    Count(Quoted(node.Indexes[i]), out.text) >= 1
        /\ node.type = "FuncExpr" /\ node.Name \in keywords =>
             StartsWith(out.text, Quoted(node.Name) \o <<"(">>)

\* C6 as stated: rendering a node whose required children are present
\* returns its text and does not panic, whatever bytes the leaves StrVal,
\* NumVal and ValArg hold, none included; a ValArg writes its bytes after
\* the first as the name of a bind variable.
C6_Original ==
    Rendered =>
        /\ out.ok
        /\ node.type = "ValArg" => out.args = <<SubSeq(node.b, 2, Len(node.b))>>

\* the clause NewWhere returned has been rendered
WhereRendered == pc = "whererendered"

\* C7: NewWhere(kind, expr) returns nil if and only if expr is absent, and
\* otherwise a Where with that kind and that expr; an absent Where, Limit or
\* OnDup renders as no text at all, so the rendering of the clause NewWhere
\* returns for an absent expr holds no " where "; a JoinTableExpr renders as
\* "<left> <join-kind> <right> on <cond>" with On present and as
\* "<left> <join-kind> <right>" with On absent, with no " on " added.
C7_AbsentPartsRenderNothing ==
    /\ pc \in {"where", "whererendered"} =>
         /\ IsNilPtr(whereRet) <=> whereArg.expr = NIL
         /\ whereArg.expr # NIL => whereRet = Where(whereArg.typ, whereArg.expr)
    /\ WhereRendered /\ whereArg.expr = NIL =>
         /\ out.ok
         /\ out.text = <<>>
         /\ Count(<<" ", "w", "h", "e", "r", "e", " ">>, out.text) = 0
    /\ WhereRendered /\ whereArg.expr # NIL =>
         out.text = <<" ">> \o whereArg.typ \o <<" ">> \o Text(whereArg.expr)
    /\ Rendered /\ node \in {NilOf("Where"), NilOf("Limit"), OnDup(TRUE, <<>>)} =>
         out.ok /\ out.text = <<>>
    /\ Rendered /\ node.type = "JoinTableExpr" =>
         /\ out.ok
         /\ node.On # NIL =>
              out.text = Text(node.LeftExpr) \o <<" ">> \o node.Join \o <<" ">>
                            \o Text(node.RightExpr) \o <<" ", "o", "n", " ">> \o Text(node.On)
         /\ node.On = NIL =>
              /\ out.text = Text(node.LeftExpr) \o <<" ">> \o node.Join \o <<" ">>
                               \o Text(node.RightExpr)
              /\ ~EndsWith(out.text, <<" ", "o", "n", " ">>)
              /\ Count(<<" ", "o", "n", " ">>, out.text)
                     = Count(<<" ", "o", "n", " ">>, Text(node.LeftExpr))
                         + Count(<<" ", "o", "n", " ">>, Text(node.RightExpr))
    /\ Rendered /\ node = JoinTableExpr(TabT1, AST_LEFT_JOIN, TabT2, CondEq) =>
         out.text = <<"t", "1", " ", "l", "e", "f", "t", " ", "j", "o", "i", "n", " ", "t", "2", " ", "o", "n", " ", "a", " ", "=", " ", "1">>
    /\ Rendered /\ node = JoinTableExpr(TabT1, AST_LEFT_JOIN, TabT2, NIL) =>
         out.text = <<"t", "1", " ", "l", "e", "f", "t", " ", "j", "o", "i", "n", " ", "t", "2">>

\* a left join without On was rendered
C7_Witness ==
    /\ Rendered
    /\ node = JoinTableExpr(TabT1, AST_LEFT_JOIN, TabT2, NIL)
    /\ out.text = <<"t", "1", " ", "l", "e", "f", "t", " ", "j", "o", "i", "n", " ", "t", "2">>

\* the text of the WHEN clauses ws, each followed by one space
RECURSIVE WhenClauses(_)
WhenClauses(ws) ==
    IF ws = <<>> THEN <<>>
    ELSE <<"w", "h", "e", "n", " ">> \o Text(Head(ws).Cond) \o <<" ", "t", "h", "e", "n", " ">> \o Text(Head(ws).Val) \o <<" ">>
             \o WhenClauses(Tail(ws))

\* the text of a CaseExpr by the template
CaseText(n) ==
    <<"c", "a", "s", "e", " ">>
        \o (IF n.Expr # NIL THEN Text(n.Expr) \o <<" ">> ELSE <<>>)
        \o WhenClauses(n.Whens)
        \o (IF n.Else # NIL THEN <<"e", "l", "s", "e", " ">> \o Text(n.Else) \o <<" ">> ELSE <<>>)
        \o <<"e", "n", "d">>

\* C8: rendering a CaseExpr leaves the node as it was, Whens and their order
\* included, and yields "case ", the operand and a space if Expr is present,
\* then for each When in the order of Whens "when <cond> then <val>" and a
\* space, then "else ", the value and a space if Else is present, then "end".
C8_CaseRendering ==
    [][pc = "node" /\ pc' = "rendered" /\ node.type = "CaseExpr" =>
         /\ node' = node
         /\ out'.ok
         /\ out'.text = CaseText(node)
         /\ \A i \in 1..Len(node.Whens) :
              SubSeq(out'.text,
                     Len(CaseText(CaseExpr(node.Expr, SubSeq(node.Whens, 1, i - 1), NIL))) - 2,
                     Len(CaseText(CaseExpr(node.Expr, SubSeq(node.Whens, 1, i), NIL))) - 4)
                  = Text(node.Whens[i])]_vars

\* a simple CASE with three different Whens and an Else was rendered
C8_Witness ==
    /\ Rendered
    /\ node.type = "CaseExpr"
    /\ node.Expr # NIL
    /\ node.Else # NIL
    /\ Len(node.Whens) = 3
    /\ Cardinality({node.Whens[i] : i \in 1..3}) = 3
    /\ out.text = CaseText(node)

\* the types of the lists joined by ", " and, for each, what precedes the list
CommaLists == {"SelectExprs", "TableExprs", "ValExprs", "GroupBy", "OrderBy", "UpdateExprs"}

ClausePrefix(type) ==
    IF type = "GroupBy" THEN <<" ", "g", "r", "o", "u", "p", " ", "b", "y", " ">>
    ELSE IF type = "OrderBy" THEN <<" ", "o", "r", "d", "e", "r", " ", "b", "y", " ">>
    ELSE <<>>

ElemTexts(es) == [i \in 1..Len(es) |-> Text(es[i])]

\* C9: a SelectExprs, TableExprs, ValExprs, GroupBy, OrderBy or UpdateExprs
\* of n >= 1 elements renders its elements in list order with ", " between
\* each two neighbours, n - 1 separators in all, none before the first and
\* none after the last element (GroupBy and OrderBy after their clause
\* prefix); three NonStarExprs a, b, c render as "a, b, c"; SpaceSplitExprs
\* does the same with one space.
C9_ListSeparators ==
    /\ Rendered /\ node.type \in CommaLists /\ Len(node.elems) >= 1 =>
         /\ out.ok
         /\ out.text = ClausePrefix(node.type) \o JoinWith(ElemTexts(node.elems), <<",", " ">>)
         /\ (\A i \in 1..Len(node.elems) : Count(<<",", " ">>, Text(node.elems[i])) = 0) =>
              Count(<<",", " ">>, out.text) = Len(node.elems) - 1
         /\ StartsWith(out.text, ClausePrefix(node.type) \o Text(node.elems[1]))
         /\ EndsWith(out.text, Text(node.elems[Len(node.elems)]))
    /\ Rendered /\ node.type = "SpaceSplitExprs" /\ Len(node.elems) >= 1 =>
         /\ out.ok
         /\ out.text = JoinWith(ElemTexts(node.elems), <<" ">>)
         /\ Count(<<" ">>, out.text)
                = Len(node.elems) - 1
                    + Count(<<" ">>, JoinWith(ElemTexts(node.elems), <<>>))
    /\ Rendered /\ node = SelectExprs(<<NonStarExpr(ColA, NilBytes), NonStarExpr(ColB, NilBytes),
                                        NonStarExpr(ColC, NilBytes)>>) =>
         out.text = <<"a", ",", " ", "b", ",", " ", "c">>

\* three NonStarExprs were rendered as "a, b, c"
C9_Witness ==
    /\ Rendered
    /\ node = SelectExprs(<<NonStarExpr(ColA, NilBytes), NonStarExpr(ColB, NilBytes),
                            NonStarExpr(ColC, NilBytes)>>)
    /\ out.text = <<"a", ",", " ", "b", ",", " ", "c">>

\* the clause nodes, and what each writes before its elements
ClauseTypes == {"Where", "GroupBy", "OrderBy", "Limit", "OnDup", "Values"}

ClauseLead(n) ==
    CASE n.type = "Where" -> <<" ">> \o n.Type \o <<" ">>
      [] n.type = "GroupBy" -> <<" ", "g", "r", "o", "u", "p", " ", "b", "y", " ">>
      [] n.type = "OrderBy" -> <<" ", "o", "r", "d", "e", "r", " ", "b", "y", " ">>
      [] n.type = "Limit" -> <<" ", "l", "i", "m", "i", "t", " ">>
      [] n.type = "OnDup" -> <<" ", "o", "n", " ", "d", "u", "p", "l", "i", "c", "a", "t", "e", " ", "k", "e", "y", " ", "u", "p", "d", "a", "t", "e", " ">>
      [] n.type = "Values" -> <<"v", "a", "l", "u", "e", "s", " ">>

\* the number of elements a clause node holds: the expression of a Where,
\* the Rowcount (and the Offset) of a Limit, the members of a list
ClauseSize(n) ==
    CASE n.type = "Where" -> 1
      [] n.type = "Limit" -> IF n.Offset = NIL THEN 1 ELSE 2
      [] OTHER -> Len(n.elems)

\* C11 as stated: a Where, GroupBy, OrderBy, Limit, OnDup or Values whose
\* contained expressions are present, a non-nil list of no elements
\* included, renders either as no text at all or as its clause prefix
\* followed by at least one rendered element; it never renders the prefix
\* alone.
C11_Original ==
    pc \in {"rendered", "whererendered"} /\ node.type \in ClauseTypes =>
        /\ out.ok
        /\ \/ out.text = <<>>
           \/ /\ ~IsNilPtr(node)
              /\ ClauseSize(node) >= 1
              /\ StartsWith(out.text, ClauseLead(node))
              /\ Len(out.text) > Len(ClauseLead(node))

====
